---- MODULE Spec2Model ----
(***************************************************************************)
(* Model of the TuringEditor class of src/hi.py: a fixed-capacity tape     *)
(* with a head, an insert/overwrite mode and an undo/redo history.         *)
(*                                                                         *)
(* Strings are sequences of one-character strings.  The head is the        *)
(* 0-based Python index; slot i of the Python list is tape[i + 1] here.    *)
(* display_tape only prints and is not modelled as state.  An exception    *)
(* that leaves a method is caught by the driver (hi.py:216), so the        *)
(* engine keeps whatever the method had done up to the raise; the model    *)
(* records the exception in outcome.                                       *)
(***************************************************************************)
EXTENDS Integers, Sequences, FiniteSets, TLC

\* ------------------------------------------------------------------
\* Bounds
\* ------------------------------------------------------------------
\* tape_size of the constructor (300 by default), scaled down
TapeSize == 3
\* the literal 300 of save_state, scaled down
UndoLimit == 1
\* number of driver calls explored from construction
MaxCalls == 5

Blank == "_"

Min(a, b) == IF a < b THEN a ELSE b
Max(a, b) == IF a > b THEN a ELSE b

RECURSIVE Rep(_, _)
Rep(c, n) == IF n <= 0 THEN <<>> ELSE <<c>> \o Rep(c, n - 1)

\* Python slice l[:n]
Take(l, n) == SubSeq(l, 1, Min(Max(n, 0), Len(l)))
\* Python slice l[n:]
Drop(l, n) == SubSeq(l, Min(Max(n, 0), Len(l)) + 1, Len(l))

\* ------------------------------------------------------------------
\* Inputs
\* ------------------------------------------------------------------
Texts == {<<>>, <<"a">>, <<"b">>, <<"a", "b">>}
Patterns == {<<<<"a">>, <<"b">>>>, <<<<"a">>, <<"a", "b">>>>,
             <<<<>>, <<"a">>>>, <<<<"b">>, <<>>>>}
Contents == {Rep("a", n) : n \in 0..(TapeSize + 1)}
\* a missing file, or a file with its content
Files == {<<FALSE, <<>>>>} \cup {<<TRUE, c>> : c \in Contents}

VARIABLES tape, head, state, mode, undo_stack, redo_stack,
          refs, outcome, lastOp, lastArgs, pre, prev, calls, story

vars == <<tape, head, state, mode, undo_stack, redo_stack,
          refs, outcome, lastOp, lastArgs, pre, prev, calls, story>>

\* The editor object, with the outcome of the call in progress.  refs holds
\* the identities of the list objects: refs.tape is the list bound to
\* self.tape, refs.undo[i] and refs.redo[i] the lists inside the i-th tuple
\* of each stack, refs.next the identity the next new list receives.
Self == [tape |-> tape, head |-> head, state |-> state, mode |-> mode,
         undo_stack |-> undo_stack, redo_stack |-> redo_stack,
         refs |-> refs, outcome |-> outcome]

Ok == <<"ok">>
NothingToDelete == <<"Nothing to delete.">>
NothingToUndo == <<"Nothing to undo.">>
NothingToRedo == <<"Nothing to redo.">>
FileNotFound == <<"File not found.">>
IndexError == <<"IndexError">>

\* (deepcopy(self.tape), self.head, self.mode)
Snapshot(s) == <<s.tape, s.head, s.mode>>

\* deepcopy(self.tape) builds a new list object
deepcopy(s) == s.refs.next

\* An in-place change of the list bound to self.tape (item assignment,
\* insert, pop): every tuple of a stack that holds this same list object
\* shows the change too.
mutate(s, t) ==
    LET seen(stack, ids) ==
            [i \in DOMAIN stack |->
                IF ids[i] = s.refs.tape
                THEN <<t, stack[i][2], stack[i][3]>> ELSE stack[i]]
    IN  [s EXCEPT !.tape = t,
                  !.undo_stack = seen(s.undo_stack, s.refs.undo),
                  !.redo_stack = seen(s.redo_stack, s.refs.redo)]

\* self.tape = <a new list>
rebind(s, t) ==
    [s EXCEPT !.tape = t, !.refs.tape = s.refs.next,
              !.refs.next = s.refs.next + 1]

\* ------------------------------------------------------------------
\* Utility helpers
\* ------------------------------------------------------------------
_visible_length(s) ==
    LET nonblank == {i \in 0..(Len(s.tape) - 1) : s.tape[i + 1] /= Blank}
        last_nonblank == IF nonblank = {} THEN -1
                         ELSE CHOOSE i \in nonblank : \A j \in nonblank : j <= i
    IN  Max(last_nonblank + 1, s.head + 1)

\* str.rstrip("_")
RECURSIVE rstrip(_)
rstrip(t) == IF t /= <<>> /\ t[Len(t)] = Blank
             THEN rstrip(SubSeq(t, 1, Len(t) - 1))
             ELSE t

\* variant: the trailing blanks are not stripped
get_text_noStrip(s) == Take(s.tape, _visible_length(s))

get_text(s) == rstrip(Take(s.tape, _visible_length(s)))

\* variant: a full stack drops the snapshot just pushed, not the oldest
save_state_dropNewest(s) ==
    LET pushed == Append(s.undo_stack, Snapshot(s))
        ids == Append(s.refs.undo, deepcopy(s))
        keep(l) == IF Len(pushed) > UndoLimit
                   THEN SubSeq(l, 1, Len(l) - 1) ELSE l
    IN  [s EXCEPT !.undo_stack = keep(pushed), !.refs.undo = keep(ids),
                  !.refs.next = s.refs.next + 1]

\* variant: the tuple holds self.tape itself, not a copy of it
save_state_noCopy(s) ==
    LET pushed == Append(s.undo_stack, Snapshot(s))
        ids == Append(s.refs.undo, s.refs.tape)
        keep(l) == IF Len(pushed) > UndoLimit THEN Tail(l) ELSE l
    IN  [s EXCEPT !.undo_stack = keep(pushed), !.refs.undo = keep(ids)]

save_state(s) ==
    LET pushed == Append(s.undo_stack, Snapshot(s))
        ids == Append(s.refs.undo, deepcopy(s))
        keep(l) == IF Len(pushed) > UndoLimit THEN Tail(l) ELSE l
    IN  [s EXCEPT !.undo_stack = keep(pushed), !.refs.undo = keep(ids),
                  !.refs.next = s.refs.next + 1]

clear_redo(s) == [s EXCEPT !.redo_stack = <<>>, !.refs.redo = <<>>]

\* str.replace(old, new): leftmost non-overlapping occurrences; an empty
\* old matches before every character and at the end
RECURSIVE str_replace(_, _, _)
str_replace(t, old, new) ==
    IF old = <<>>
    THEN IF t = <<>> THEN new
         ELSE new \o <<Head(t)>> \o str_replace(Tail(t), old, new)
    ELSE IF Len(t) < Len(old) THEN t
         ELSE IF SubSeq(t, 1, Len(old)) = old
              THEN new \o str_replace(Drop(t, Len(old)), old, new)
              ELSE <<Head(t)>> \o str_replace(Tail(t), old, new)

\* list.insert(i, x): an index past the end appends
list_insert(l, i, x) == Take(l, i) \o <<x>> \o Drop(l, i)

\* list.pop()
list_pop(l) == SubSeq(l, 1, Len(l) - 1)

\* ------------------------------------------------------------------
\* Editing operations
\* ------------------------------------------------------------------
\* variant: every symbol is inserted with a shift, whatever the mode
RECURSIVE type_loop_alwaysShift(_, _)
type_loop_alwaysShift(s, text) ==
    IF text = <<>> THEN clear_redo(s)
    ELSE type_loop_alwaysShift(
             [mutate(s, list_pop(list_insert(s.tape, s.head, Head(text))))
                 EXCEPT !.head = s.head + 1], Tail(text))

\* the for loop of type_text, then clear_redo; an overwrite past the last
\* slot raises IndexError and leaves the loop and the method
RECURSIVE type_loop(_, _)
type_loop(s, text) ==
    IF text = <<>> THEN clear_redo(s)
    ELSE IF s.mode = "insert"
         THEN type_loop(
                  [mutate(s, list_pop(list_insert(s.tape, s.head, Head(text))))
                      EXCEPT !.head = s.head + 1], Tail(text))
         ELSE IF s.head >= Len(s.tape)
              THEN [s EXCEPT !.outcome = IndexError]
              ELSE type_loop(
                       [mutate(s, [s.tape EXCEPT ![s.head + 1] = Head(text)])
                           EXCEPT !.head = s.head + 1], Tail(text))

type_text(s, text) ==
    IF text = <<>> THEN [s EXCEPT !.outcome = Ok]
    ELSE type_loop([save_state(s) EXCEPT !.state = "Typing", !.outcome = Ok],
                   text)

\* variant: the checkpoint is taken before the head test
backspace_checkpointFirst(s) ==
    LET saved == save_state(s)
        h == s.head - 1
    IN  IF s.head = 0 THEN [saved EXCEPT !.outcome = NothingToDelete]
        ELSE IF h >= Len(s.tape)
             THEN [saved EXCEPT !.state = "Delete", !.head = h,
                                !.outcome = IndexError]
             ELSE clear_redo(
                      [mutate(saved, [s.tape EXCEPT ![h + 1] = Blank]) EXCEPT
                          !.state = "Delete", !.head = h,
                          !.outcome = <<"Deleted", s.tape[h + 1]>>])

backspace(s) ==
    IF s.head = 0 THEN [s EXCEPT !.outcome = NothingToDelete]
    ELSE LET saved == save_state(s)
             h == s.head - 1
         IN  IF h >= Len(s.tape)
             THEN [saved EXCEPT !.state = "Delete", !.head = h,
                                !.outcome = IndexError]
             ELSE clear_redo(
                      [mutate(saved, [s.tape EXCEPT ![h + 1] = Blank]) EXCEPT
                          !.state = "Delete", !.head = h,
                          !.outcome = <<"Deleted", s.tape[h + 1]>>])

move_left(s) ==
    [s EXCEPT !.state = "Move_Left",
              !.head = IF s.head > 0 THEN s.head - 1 ELSE s.head,
              !.outcome = Ok]

move_right(s) ==
    [s EXCEPT !.state = "Move_Right",
              !.head = IF s.head < Len(s.tape) - 1 THEN s.head + 1 ELSE s.head,
              !.outcome = Ok]

move_start(s) == [s EXCEPT !.state = "Move_Start", !.head = 0, !.outcome = Ok]

\* variant: the head is set to the visible length itself
move_end_noMinusOne(s) ==
    [s EXCEPT !.state = "Move_End", !.head = _visible_length(s),
              !.outcome = Ok]

move_end(s) ==
    [s EXCEPT !.state = "Move_End", !.head = _visible_length(s) - 1,
              !.outcome = Ok]

\* variant: the head of the snapshot is not restored
redo_noHead(s) ==
    IF s.redo_stack = <<>> THEN [s EXCEPT !.outcome = NothingToRedo]
    ELSE LET top == s.redo_stack[Len(s.redo_stack)]
         IN  [s EXCEPT !.state = "Redo",
                       !.undo_stack = Append(s.undo_stack, Snapshot(s)),
                       !.redo_stack = list_pop(s.redo_stack),
                       !.tape = top[1], !.mode = top[3],
                       !.refs = [tape |-> s.refs.redo[Len(s.refs.redo)],
                                 undo |-> Append(s.refs.undo, deepcopy(s)),
                                 redo |-> list_pop(s.refs.redo),
                                 next |-> s.refs.next + 1],
                       !.outcome = Ok]

\* variant: the redo stack receives the restored snapshot, not the current one
undo_pushRestored(s) ==
    IF s.undo_stack = <<>> THEN [s EXCEPT !.outcome = NothingToUndo]
    ELSE LET top == s.undo_stack[Len(s.undo_stack)]
         IN  [s EXCEPT !.state = "Undo",
                       !.redo_stack = Append(s.redo_stack, top),
                       !.undo_stack = list_pop(s.undo_stack),
                       !.tape = top[1], !.head = top[2], !.mode = top[3],
                       !.refs = [tape |-> s.refs.undo[Len(s.refs.undo)],
                                 undo |-> list_pop(s.refs.undo),
                                 redo |-> Append(s.refs.redo, deepcopy(s)),
                                 next |-> s.refs.next + 1],
                       !.outcome = Ok]

undo(s) ==
    IF s.undo_stack = <<>> THEN [s EXCEPT !.outcome = NothingToUndo]
    ELSE LET top == s.undo_stack[Len(s.undo_stack)]
         IN  [s EXCEPT !.state = "Undo",
                       !.redo_stack = Append(s.redo_stack, Snapshot(s)),
                       !.undo_stack = list_pop(s.undo_stack),
                       !.tape = top[1], !.head = top[2], !.mode = top[3],
                       !.refs = [tape |-> s.refs.undo[Len(s.refs.undo)],
                                 undo |-> list_pop(s.refs.undo),
                                 redo |-> Append(s.refs.redo, deepcopy(s)),
                                 next |-> s.refs.next + 1],
                       !.outcome = Ok]

redo(s) ==
    IF s.redo_stack = <<>> THEN [s EXCEPT !.outcome = NothingToRedo]
    ELSE LET top == s.redo_stack[Len(s.redo_stack)]
         IN  [s EXCEPT !.state = "Redo",
                       !.undo_stack = Append(s.undo_stack, Snapshot(s)),
                       !.redo_stack = list_pop(s.redo_stack),
                       !.tape = top[1], !.head = top[2], !.mode = top[3],
                       !.refs = [tape |-> s.refs.redo[Len(s.refs.redo)],
                                 undo |-> Append(s.refs.undo, deepcopy(s)),
                                 redo |-> list_pop(s.refs.redo),
                                 next |-> s.refs.next + 1],
                       !.outcome = Ok]

\* variant: the mode switch is checkpointed like an edit
toggle_mode_checkpoint(s) ==
    [save_state(s) EXCEPT
        !.mode = IF s.mode = "insert" THEN "overwrite" ELSE "insert",
        !.outcome = Ok]

toggle_mode(s) ==
    [s EXCEPT !.mode = IF s.mode = "insert" THEN "overwrite" ELSE "insert",
              !.outcome = Ok]

\* variant: the redo history is cleared as in type_text and backspace
clear_all_clearRedo(s) ==
    clear_redo([rebind(save_state(s), Rep(Blank, Len(s.tape))) EXCEPT
                   !.head = 0, !.state = "Clear", !.outcome = Ok])

clear_all(s) ==
    [rebind(save_state(s), Rep(Blank, Len(s.tape))) EXCEPT
        !.head = 0, !.state = "Clear", !.outcome = Ok]

\* the first loop raises IndexError at i = len(self.tape) when the replaced
\* text is longer than the tape; the slots before it are already written
replace_text(s, old, new) ==
    LET saved == save_state(s)
        text == str_replace(get_text(saved), old, new)
        n == Len(s.tape)
    IN  IF Len(text) > n
        THEN [mutate(saved, Take(text, n)) EXCEPT !.outcome = IndexError]
        ELSE [mutate(saved, text \o Rep(Blank, n - Len(text))) EXCEPT
                 !.outcome = Ok]

\* f.write(self.get_text()); the outcome carries what was written
save_to_file(s) == [s EXCEPT !.outcome = <<"Saved", get_text(s)>>]

\* found = FALSE: open() raises FileNotFoundError, caught in the method
load_from_file(s, found, content) ==
    IF ~found THEN [s EXCEPT !.outcome = FileNotFound]
    ELSE [rebind(save_state(s),
                 content \o Rep(Blank, Len(s.tape) - Len(content))) EXCEPT
             !.head = Len(content), !.outcome = Ok]

\* ------------------------------------------------------------------
\* State machine
\* ------------------------------------------------------------------
\* TuringEditor.__init__
Init ==
    /\ tape = Rep(Blank, TapeSize)
    /\ head = 0
    /\ state = "q0"
    /\ mode = "insert"
    /\ undo_stack = <<>>
    /\ redo_stack = <<>>
    /\ refs = [tape |-> 0, undo |-> <<>>, redo |-> <<>>, next |-> 1]
    /\ outcome = Ok
    /\ lastOp = "init"
    /\ lastArgs = <<>>
    /\ pre = [tape |-> Rep(Blank, TapeSize), head |-> 0, state |-> "q0",
              mode |-> "insert", undo_stack |-> <<>>, redo_stack |-> <<>>,
              refs |-> [tape |-> 0, undo |-> <<>>, redo |-> <<>>,
                        next |-> 1],
              outcome |-> Ok]
    /\ prev = [op |-> "init", args |-> <<>>, outcome |-> Ok, depth |-> 0]
    /\ calls = 0
    /\ story = [phase |-> "edits", k |-> 0, n |-> 0, extra |-> FALSE,
                before |-> <<>>, top |-> <<>>]

Movements == {"move_left", "move_right", "move_start", "move_end"}

\* a call that edited the text and returned normally
SuccessfulEdit(op, args, out) ==
    \/ op = "type_text" /\ args[1] /= <<>> /\ out = Ok
    \/ op = "backspace" /\ out[1] = "Deleted"
    \/ op = "clear_all"
    \/ op = "replace_text" /\ out = Ok

\* the story has left the pattern "edits, then undos, then redos"
Void == [phase |-> "void", k |-> 0, n |-> 0, extra |-> FALSE,
         before |-> <<>>, top |-> <<>>]

\* Observer of the calls made since construction.  While only movements,
\* mode switches and k <= UndoLimit successful edits were made the phase is
\* "edits"; the undos that follow are counted in n (phase "undos", extra
\* once one more undo than edits was issued), then the redos (phase
\* "redos").  before is the (tape, head, mode) before the first edit, top
\* the one before the first undo.  Any other call ends the story.
StoryStep(st, op, args, live, out) ==
    IF st.phase = "edits"
    THEN IF op \in Movements \cup {"toggle_mode"} THEN st
         ELSE IF SuccessfulEdit(op, args, out) /\ st.k < UndoLimit
              THEN [st EXCEPT !.k = st.k + 1,
                              !.before = IF st.k = 0 THEN live ELSE @]
         ELSE IF op = "undo" /\ st.k >= 1
              THEN [st EXCEPT !.phase = "undos", !.n = 1, !.top = live]
         ELSE Void
    ELSE IF st.phase = "undos"
    THEN IF op = "undo" /\ st.n < st.k THEN [st EXCEPT !.n = st.n + 1]
         ELSE IF op = "undo" /\ st.n = st.k /\ ~st.extra
              THEN [st EXCEPT !.extra = TRUE]
         ELSE IF op = "redo" /\ st.n = st.k
              THEN [st EXCEPT !.phase = "redos", !.n = 1]
         ELSE Void
    ELSE IF st.phase = "redos" /\ op = "redo" /\ st.n < st.k
         THEN [st EXCEPT !.n = st.n + 1]
    ELSE Void

\* one call of the driver into the editor (run_editor, hi.py:196-210), made
\* while fewer than limit calls were made
Step(limit, op, args, s) ==
    /\ calls < limit
    /\ calls' = calls + 1
    /\ tape' = s.tape
    /\ head' = s.head
    /\ state' = s.state
    /\ mode' = s.mode
    /\ undo_stack' = s.undo_stack
    /\ redo_stack' = s.redo_stack
    /\ refs' = s.refs
    /\ outcome' = s.outcome
    /\ lastOp' = op
    /\ lastArgs' = args
    /\ pre' = Self
    /\ prev' = [op |-> lastOp, args |-> lastArgs, outcome |-> outcome,
                depth |-> Len(pre.undo_stack)]
    /\ story' = StoryStep(story, op, args, Snapshot(Self), s.outcome)

Call(op, args, s) == Step(MaxCalls, op, args, s)

TypeText == \E text \in Texts :
                Call("type_text", <<text>>, type_text(Self, text))
Backspace == Call("backspace", <<>>, backspace(Self))
MoveLeft == Call("move_left", <<>>, move_left(Self))
MoveRight == Call("move_right", <<>>, move_right(Self))
MoveStart == Call("move_start", <<>>, move_start(Self))
MoveEnd == Call("move_end", <<>>, move_end(Self))
Undo == Call("undo", <<>>, undo(Self))
Redo == Call("redo", <<>>, redo(Self))
ToggleMode == Call("toggle_mode", <<>>, toggle_mode(Self))
ClearAll == Call("clear_all", <<>>, clear_all(Self))
ReplaceText == \E p \in Patterns :
                   Call("replace_text", p, replace_text(Self, p[1], p[2]))
SaveToFile == Call("save_to_file", <<>>, save_to_file(Self))
LoadFromFile == \E file \in Files :
                    Call("load_from_file", file,
                         load_from_file(Self, file[1], file[2]))

Next ==
    \/ TypeText
    \/ Backspace
    \/ MoveLeft
    \/ MoveRight
    \/ MoveStart
    \/ MoveEnd
    \/ Undo
    \/ Redo
    \/ ToggleMode
    \/ ClearAll
    \/ ReplaceText
    \/ SaveToFile
    \/ LoadFromFile

Spec == Init /\ [][Next]_vars

\* ------------------------------------------------------------------
\* Longer sessions of edits, undos and redos
\* ------------------------------------------------------------------
\* calls needed for UndoLimit edits, as many undos, one refused undo and as
\* many redos, with one movement or mode switch in between
HistoryCalls == 3 * UndoLimit + 2

HistoryCall(op, args, s) == Step(HistoryCalls, op, args, s)

HType == HistoryCall("type_text", <<<<"a">>>>, type_text(Self, <<"a">>))
HBackspace == HistoryCall("backspace", <<>>, backspace(Self))
HClearAll == HistoryCall("clear_all", <<>>, clear_all(Self))
HReplace == HistoryCall("replace_text", <<<<"a">>, <<"b">>>>,
                        replace_text(Self, <<"a">>, <<"b">>))
HMoveLeft == HistoryCall("move_left", <<>>, move_left(Self))
HToggleMode == HistoryCall("toggle_mode", <<>>, toggle_mode(Self))
HUndo == HistoryCall("undo", <<>>, undo(Self))
HRedo == HistoryCall("redo", <<>>, redo(Self))

NextHistory ==
    \/ HType
    \/ HBackspace
    \/ HClearAll
    \/ HReplace
    \/ HMoveLeft
    \/ HToggleMode
    \/ HUndo
    \/ HRedo

SpecHistory == Init /\ [][NextHistory]_vars

TypeOK ==
    /\ head \in Nat
    /\ mode \in {"insert", "overwrite"}
    /\ calls \in 0..MaxCalls

\* ------------------------------------------------------------------
\* Properties
\* ------------------------------------------------------------------
\* the (tape, head, mode) of the editor now
Live == <<tape, head, mode>>

\* the last call was a typeText of a non-empty text that returned normally,
\* a backspace that deleted a symbol, or a clearAll
EditDone(op, args, out) ==
    \/ op = "type_text" /\ args[1] /= <<>> /\ out = Ok
    \/ op = "backspace" /\ out[1] = "Deleted"
    \/ op = "clear_all"

\* C1: an undo issued right after a successful typeText (non-empty text),
\* backspace (head > 0) or clearAll succeeds and restores exactly the
\* (tape, head, mode) that held just before that edit, whatever the depth of
\* the undo stack was, a full stack included.
C1_UndoAfterEditRestores ==
    [][(EditDone(lastOp, lastArgs, outcome) /\ lastOp' = "undo")
           => (outcome' = Ok /\ Live' = Snapshot(pre))]_vars

\* an undo has just followed an edit made on a full undo stack, and the
\* edit had changed the (tape, head, mode)
C1_Witness ==
    /\ lastOp = "undo"
    /\ outcome = Ok
    /\ EditDone(prev.op, prev.args, prev.outcome)
    /\ prev.depth = UndoLimit
    /\ Live /= Snapshot(pre)

\* C2: a redo issued right after a successful undo succeeds and leaves
\* (tape, head, mode) equal to what they were before the undo.
C2_UndoRedoIdentity ==
    [][(lastOp = "undo" /\ outcome = Ok /\ lastOp' = "redo")
           => (outcome' = Ok /\ Live' = Snapshot(pre))]_vars

\* a redo has just followed a successful undo that had changed the
\* (tape, head, mode)
C2_Witness ==
    /\ lastOp = "redo"
    /\ outcome = Ok
    /\ prev.op = "undo"
    /\ prev.outcome = Ok
    /\ Live /= Snapshot(pre)

\* C3: the undo stack never holds more snapshots than the configured
\* maximum.
C3_UndoStackBounded == Len(undo_stack) <= UndoLimit

\* C4: the redo stack never holds more snapshots than the undo-stack
\* maximum.
C4_RedoStackBounded == Len(redo_stack) <= UndoLimit

\* C5: after every operation the head is a valid slot index,
\* 0 <= head <= N-1.
C5_HeadInRange == 0 <= head /\ head <= TapeSize - 1

\* C6: the tape always has the N slots it was constructed with.
C6_TapeLengthConstant == Len(tape) = TapeSize

\* C7: backspace with head = 0, undo with an empty undo stack and redo with
\* an empty redo stack leave tape, head, mode, undo stack and redo stack as
\* they were before the call.
C7_ErrorsChangeNothing ==
    (\/ lastOp = "backspace" /\ pre.head = 0
     \/ lastOp = "undo" /\ pre.undo_stack = <<>>
     \/ lastOp = "redo" /\ pre.redo_stack = <<>>)
        => /\ tape = pre.tape
           /\ head = pre.head
           /\ mode = pre.mode
           /\ undo_stack = pre.undo_stack
           /\ redo_stack = pre.redo_stack

\* a backspace was refused at head 0 while the editor held redo history
C7_Witness ==
    /\ lastOp = "backspace"
    /\ pre.head = 0
    /\ outcome = NothingToDelete
    /\ redo_stack /= <<>>

\* C8: typeText, replaceText, clearAll, the four movement operations and
\* toggleMode complete normally, without raising, in every state and for
\* every input.
C8_NoOperationRaises ==
    lastOp \in {"type_text", "replace_text", "clear_all", "move_left",
                "move_right", "move_start", "move_end", "toggle_mode"}
        => outcome /= IndexError

\* C9: after a typeText of a non-empty text or a backspace that deleted a
\* symbol the redo stack is empty.
C9_EditClearsRedo ==
    (\/ lastOp = "type_text" /\ lastArgs[1] /= <<>>
     \/ lastOp = "backspace" /\ outcome[1] = "Deleted")
        => redo_stack = <<>>

\* C10: clearAll and replaceText leave the redo stack exactly as it was, and
\* a redo issued right after them on a non-empty redo stack succeeds and
\* installs the top snapshot of that stack.
C10_ClearReplaceKeepRedo ==
    [][/\ lastOp' \in {"clear_all", "replace_text"}
            => redo_stack' = redo_stack
       /\ (lastOp \in {"clear_all", "replace_text"} /\ redo_stack /= <<>>
             /\ lastOp' = "redo")
            => (outcome' = Ok /\ Live' = redo_stack[Len(redo_stack)])]_vars

\* a redo has just succeeded right after a clearAll that kept redo history
C10_Witness ==
    /\ lastOp = "redo"
    /\ outcome = Ok
    /\ prev.op = "clear_all"
    /\ pre.redo_stack /= <<>>

\* index (1-based) of the last non-blank slot of t, 0 when t is all blank
LastNonBlank(t) ==
    IF \A i \in DOMAIN t : t[i] = Blank THEN 0
    ELSE CHOOSE i \in DOMAIN t :
             t[i] /= Blank /\ \A j \in DOMAIN t : j > i => t[j] = Blank

\* visibleLength() = max(index of last non-blank slot + 1, head + 1)
VisibleLength(t, h) == Max(LastNonBlank(t), h + 1)

\* a text with no trailing blank, no longer than the visible length
Trimmed(text, t, h) ==
    /\ text = <<>> \/ text[Len(text)] /= Blank
    /\ Len(text) <= VisibleLength(t, h)

\* tape, head, mode and both stacks are as before the last call
EngineUnchanged ==
    /\ tape = pre.tape
    /\ head = pre.head
    /\ mode = pre.mode
    /\ undo_stack = pre.undo_stack
    /\ redo_stack = pre.redo_stack

\* C11: in every state getText() has no trailing blank and is at most
\* visibleLength() = max(last non-blank index + 1, head + 1) symbols long,
\* and a call that reads it (save) changes no state.
C11_GetTextTrimmed ==
    /\ Trimmed(get_text(Self), tape, head)
    /\ lastOp = "save_to_file"
         => (Trimmed(outcome[2], pre.tape, pre.head) /\ EngineUnchanged
             /\ state = pre.state)

\* a non-empty text was read while the head stood beyond it, so blanks
\* inside the visible length were stripped
C11_Witness ==
    /\ lastOp = "save_to_file"
    /\ outcome[2] /= <<>>
    /\ Len(outcome[2]) < VisibleLength(tape, head)

\* the last call was a typeText of a non-empty text in the given mode that
\* ends at or before the last slot of an N-slot tape
TypedWithin(m) ==
    /\ lastOp = "type_text"
    /\ lastArgs[1] /= <<>>
    /\ pre.mode = m
    /\ pre.head + Len(lastArgs[1]) <= TapeSize - 1

\* C12: in Insert mode, typeText of a non-empty s at head h with
\* h + |s| <= N-1 gives tape' = tape[0..h) ++ s ++ tape[h..N-|s|), of
\* length N, and head' = h + |s|.
C12_InsertShifts ==
    TypedWithin("insert")
        => /\ tape = SubSeq(pre.tape, 1, pre.head) \o lastArgs[1]
                       \o SubSeq(pre.tape, pre.head + 1,
                                 TapeSize - Len(lastArgs[1]))
           /\ Len(tape) = TapeSize
           /\ head = pre.head + Len(lastArgs[1])

\* C13: in Overwrite mode, typeText of a non-empty s at head h with
\* h + |s| <= N-1 sets slot h+i to s[i], leaves every other slot as it was
\* and sets head' = h + |s|.
C13_OverwriteInPlace ==
    TypedWithin("overwrite")
        => /\ outcome = Ok
           /\ Len(tape) = Len(pre.tape)
           /\ \A i \in 1..Len(tape) :
                  tape[i] = IF i > pre.head /\ i <= pre.head + Len(lastArgs[1])
                            THEN lastArgs[1][i - pre.head]
                            ELSE pre.tape[i]
           /\ head = pre.head + Len(lastArgs[1])

\* a symbol was overwritten in place with content to its right, which an
\* insertion would have shifted
C13_Witness ==
    /\ TypedWithin("overwrite")
    /\ tape /= pre.tape
    /\ tape[head + 1] /= Blank
    /\ tape[head + 1] /= tape[head]

\* the (tape, head, mode) before the last call
PreLive == <<pre.tape, pre.head, pre.mode>>

\* the last call pushed exactly one checkpoint, of the pre-call state, on
\* the undo stack (dropping at most the oldest entry)
PushedOne ==
    /\ undo_stack /= <<>>
    /\ undo_stack[Len(undo_stack)] = PreLive
    /\ \E d \in {0, 1} :
           SubSeq(undo_stack, 1, Len(undo_stack) - 1)
               = SubSeq(pre.undo_stack, 1 + d, Len(pre.undo_stack))

\* C14: backspace with head = h > 0 pushes one checkpoint of the pre-call
\* state, sets head' = h-1, reports the symbol that was in slot h-1, blanks
\* that slot and leaves every other slot and the mode unchanged.
C14_BackspaceBlanksSlot ==
    (lastOp = "backspace" /\ pre.head > 0)
        => /\ head = pre.head - 1
           /\ mode = pre.mode
           /\ PushedOne
           /\ outcome[1] = "Deleted"
           /\ outcome[2] = pre.tape[pre.head]
           /\ tape = [pre.tape EXCEPT ![pre.head] = Blank]

\* C15: replaceText(old, new) with non-empty old and a replaced text R of
\* at most N symbols sets the tape to R padded with blanks to length N,
\* pushes one checkpoint of the pre-call state and leaves head and mode
\* unchanged.
C15_ReplaceWritesResult ==
    LET R == str_replace(get_text(pre), lastArgs[1], lastArgs[2])
    IN  (lastOp = "replace_text" /\ lastArgs[1] /= <<>> /\ Len(R) <= TapeSize)
            => /\ tape = R \o Rep(Blank, TapeSize - Len(R))
               /\ PushedOne
               /\ head = pre.head
               /\ mode = pre.mode

\* C16: the four movement operations and toggleMode leave the tape and both
\* stacks unchanged; the movements also leave the mode unchanged and
\* toggleMode leaves the head unchanged.
C16_MovesAreNotEdits ==
    /\ lastOp \in Movements \cup {"toggle_mode"}
         => (tape = pre.tape /\ undo_stack = pre.undo_stack
             /\ redo_stack = pre.redo_stack)
    /\ lastOp \in Movements => mode = pre.mode
    /\ lastOp = "toggle_mode" => head = pre.head

\* the mode was switched while both stacks held history
C16_Witness ==
    /\ lastOp = "toggle_mode"
    /\ mode /= pre.mode
    /\ undo_stack /= <<>>
    /\ redo_stack /= <<>>

\* the last call took a checkpoint: a typeText of a non-empty text, a
\* backspace with head > 0, a clearAll, a replaceText or a load of a file
Checkpointing ==
    \/ lastOp = "type_text" /\ lastArgs[1] /= <<>>
    \/ lastOp = "backspace" /\ pre.head > 0
    \/ lastOp \in {"clear_all", "replace_text"}
    \/ lastOp = "load_from_file" /\ lastArgs[1]

C19_MoveEndIdempotent ==
    [][/\ lastOp' = "move_end"
            => (head' = VisibleLength(tape, head) - 1 /\ head' >= head)
       /\ (lastOp = "move_end" /\ lastOp' = "move_end")
            => head' = head]_vars

\* moveEnd has just moved the head to the right, onto the last non-blank
\* slot
C19_Witness ==
    /\ lastOp = "move_end"
    /\ head > pre.head
    /\ head = LastNonBlank(tape) - 1

NoSharing ==
    /\ \A i \in DOMAIN refs.undo : refs.undo[i] /= refs.tape
    /\ \A i \in DOMAIN refs.redo : refs.redo[i] /= refs.tape

\* C18: a snapshot stored in the undo or redo stack never shares its tape
\* with the live tape, and a snapshot that is still in its stack after a
\* call (not popped, evicted or cleared) has the (tape, head, mode) it had
\* before the call.
C18_SnapshotsNotAliased ==
    [][/\ NoSharing'
       /\ \A i \in DOMAIN undo_stack : \A j \in DOMAIN undo_stack' :
              refs.undo[i] = refs'.undo[j] => undo_stack[i] = undo_stack'[j]
       /\ \A i \in DOMAIN redo_stack : \A j \in DOMAIN redo_stack' :
              refs.redo[i] = refs'.redo[j] => redo_stack[i] = redo_stack'[j]
      ]_vars

\* a replaceText rewrote in place a live tape that undo had taken out of the
\* undo stack, while the redo stack kept its snapshot
C18_Witness ==
    /\ lastOp = "replace_text"
    /\ prev.op = "undo"
    /\ prev.outcome = Ok
    /\ tape /= pre.tape
    /\ redo_stack /= <<>>
    /\ refs.redo = pre.refs.redo
====
